---- MODULE Spec2Model ----
(***************************************************************************)
(* NeuralStack: the pipeline orchestrator (src/main.py) and the slug       *)
(* derivation of the content stage (src/agents/content.py).                *)
(*                                                                         *)
(* The orchestrator is modelled as a state machine over the three          *)
(* persisted files it bootstraps, with one program counter per             *)
(* invocation of run_pipeline.  The slug derivation is a pure function,    *)
(* modelled as an operator over sequences of characters.                   *)
(***************************************************************************)
EXTENDS Integers, Sequences, FiniteSets, TLC

VARIABLES
    fs,               \* the persisted files: topics.json, performance.json, site/index.md
    pc,               \* per invocation: the position inside run_pipeline
    performance,      \* per invocation: the local `performance` (main.py:83)
    run_entry,        \* per invocation: the local `run_entry` (main.py:84)
    new_topics,       \* per invocation: the local `new_topics` (main.py:96)
    drafts,           \* per invocation: the local `drafts` (main.py:101)
    approved_drafts,  \* per invocation: the local `approved_drafts` (main.py:106)
    published_files,  \* per invocation: the local `published_files` (main.py:110)
    exit,             \* per invocation: how run_pipeline was left
    clock,            \* the number of invocations started; source of timestamps
    found,            \* history: per invocation, performance.json as load_performance found it
    loaded,           \* history: per invocation, what load_performance returned
    executed,         \* history: per invocation, the stages run so far, each with its input
    appended,         \* history: every RunEntry appended (main.py:120) since the bootstrap
    lastWritten,      \* history: the ledger the program itself last wrote to performance.json
    text,             \* slug derivation: the input string
    slugs,            \* slug derivation: the results of the successive applications
    gen_keyword,      \* article generator: the shape of the `keyword` argument
    gen_words,        \* article generator: len(words) (content.py:224, 234)
    gen_pc,           \* article generator: the position inside the function
    gen_padded        \* article generator: history, the iterations of the padding loop

vars == <<fs, pc, performance, run_entry, new_topics, drafts, approved_drafts,
          published_files, exit, clock, found, loaded, executed, appended,
          lastWritten, text, slugs, gen_keyword, gen_words, gen_pc, gen_padded>>

genVars == <<gen_keyword, gen_words, gen_pc, gen_padded>>

(***************************************************************************)
(* Bounds of the model.                                                    *)
(***************************************************************************)
\* invocations of run_pipeline in one behaviour
MaxRuns == 2
\* length of the free tail of a slug input
MaxTail == 3
\* words in the keyword given to the article generator
MaxKeywordWords == 160
\* topics handed to the content stage on its own
MaxTopics == 3

Procs == {"p1", "p2"}

(***************************************************************************)
(* Persisted files.                                                        *)
(***************************************************************************)
\* JSON null, as the value of last_run; timestamps are 1, 2, ...
NullTime == 0

Absent == [kind |-> "absent"]

\* main.py:41: TOPICS_FILE.write_text("[]")
TopicsDefault == [kind |-> "text", body |-> "[]"]

\* main.py:59-65: the placeholder site index
IndexDefault == [kind |-> "text", body |-> "# NeuralStack Autonomous Tech Insights"]

\* a JSON object holding some of the ledger's keys; a key that is absent
\* carries a fixed filler value that no operator reads
JObject(keys, runs, published, last, errs) ==
    [type |-> "object", keys |-> keys, runs |-> runs,
     articles_published |-> published, last_run |-> last, errors |-> errs]

LedgerKeys == {"runs", "articles_published", "last_run", "errors"}

\* main.py:46-51 and main.py:72: the empty ledger
EmptyLedger == JObject(LedgerKeys, <<>>, 0, NullTime, <<>>)

\* a file holding the JSON text of a value (json.dumps, then json.loads)
JsonFile(value) == [kind |-> "json", value |-> value]

\* main.py:43-55
PerformanceDefault == JsonFile(EmptyLedger)

\* dict.get(key, default) on a parsed JSON object
Get(obj, key, default) == IF key \in obj.keys THEN obj[key] ELSE default

\* a bootstrap that writes performance.json without looking for it first
EnsureInitialFilesOverwriting(files) ==
    [topics      |-> IF files.topics = Absent THEN TopicsDefault ELSE files.topics,
     performance |-> PerformanceDefault,
     index       |-> IF files.index = Absent THEN IndexDefault ELSE files.index]

\* main.py:35-65: every file is created only if it does not exist
EnsureInitialFiles(files) ==
    [topics      |-> IF files.topics = Absent THEN TopicsDefault ELSE files.topics,
     performance |-> IF files.performance = Absent THEN PerformanceDefault
                     ELSE files.performance,
     index       |-> IF files.index = Absent THEN IndexDefault ELSE files.index]

\* main.py:68-72: json.loads of the file's text; any exception (file missing,
\* text that is not JSON) gives the empty ledger; valid JSON of any shape is
\* returned as it is
LoadPerformance(file) ==
    IF file.kind = "json" THEN file.value ELSE EmptyLedger

\* a save that reads the file again and adds the new RunEntry to what it holds
SavePerformanceMerging(files, data) ==
    IF files.performance.kind = "json" /\ files.performance.value.type = "object"
       /\ "runs" \in files.performance.value.keys
    THEN [files EXCEPT !.performance =
             JsonFile([data EXCEPT !.runs = Append(files.performance.value.runs,
                                                  data.runs[Len(data.runs)])])]
    ELSE [files EXCEPT !.performance = JsonFile(data)]

\* main.py:75-76
SavePerformance(files, data) == [files EXCEPT !.performance = JsonFile(data)]

\* main.py:84-91
NewRunEntry(now) ==
    [timestamp |-> now, status |-> "started", generated_topics |-> 0,
     generated_articles |-> 0, published_articles |-> 0, errors |-> <<>>]

(***************************************************************************)
(* Slug derivation (ContentAgent._slugify).  A string is a sequence of     *)
(* characters; the alphabet holds one character of every class the code    *)
(* tells apart.                                                            *)
(***************************************************************************)
\* content.py:250: slug.strip("-")[:80]
MAX_SLUG_LEN == 80

\* "a", "b", "i": lower-case letters; "B": an upper-case letter; "-": the
\* hyphen; "!": another non-alphanumeric character; "U+0130": the capital I
\* with dot above, alphanumeric, whose str.lower() is the two characters
\* "i" and "U+0307"; "U+0307": the combining dot above, not alphanumeric
Alphabet == {"a", "B", "-", "!", "U+0130"}

\* str.isalnum() of one character
IsAlnum(c) == c \in {"a", "b", "i", "B", "U+0130"}

\* str.lower() of one character: a string, not always of length one
Lower(c) ==
    IF c = "B" THEN <<"b">>
    ELSE IF c = "U+0130" THEN <<"i", "U+0307">>
    ELSE <<c>>

\* content.py:247: "".join(c.lower() if c.isalnum() else "-" for c in text),
\* here for the characters lo..hi of s (the range is halved to keep the
\* evaluation shallow)
RECURSIVE MapRange(_, _, _)
MapRange(s, lo, hi) ==
    IF lo > hi THEN <<>>
    ELSE IF lo = hi THEN (IF IsAlnum(s[lo]) THEN Lower(s[lo]) ELSE <<"-">>)
    ELSE LET mid == (lo + hi) \div 2
         IN  MapRange(s, lo, mid) \o MapRange(s, mid + 1, hi)

MapChars(s) == MapRange(s, 1, Len(s))

\* "--" in slug
HasDoubleHyphen(s) ==
    \E i \in 1..(Len(s) - 1) : s[i] = "-" /\ s[i + 1] = "-"

\* the position of s[i] inside its run of hyphens, counted from 1
HyphenOffset(s, i) ==
    LET before == {k \in 1..(i - 1) : s[k] # "-"}
        last == IF before = {} THEN 0 ELSE CHOOSE k \in before : \A j \in before : j <= k
    IN  i - last

\* str.replace scans left to right over non-overlapping matches, so in a
\* run of hyphens it pairs the 1st with the 2nd, the 3rd with the 4th, ...
\* and writes one hyphen per pair: the hyphens at even offsets go
RECURSIVE ReplaceRange(_, _, _)
ReplaceRange(s, lo, hi) ==
    IF lo > hi THEN <<>>
    ELSE IF lo = hi
         THEN (IF s[lo] = "-" /\ HyphenOffset(s, lo) % 2 = 0 THEN <<>> ELSE <<s[lo]>>)
    ELSE LET mid == (lo + hi) \div 2
         IN  ReplaceRange(s, lo, mid) \o ReplaceRange(s, mid + 1, hi)

\* slug.replace("--", "-")
ReplaceDoubleHyphen(s) == ReplaceRange(s, 1, Len(s))

\* content.py:248-249: while "--" in slug: slug = slug.replace("--", "-")
RECURSIVE CollapseHyphens(_)
CollapseHyphens(s) ==
    IF HasDoubleHyphen(s) THEN CollapseHyphens(ReplaceDoubleHyphen(s)) ELSE s

\* str.strip("-"): from the first to the last character that is no hyphen
Strip(s) ==
    LET kept == {i \in 1..Len(s) : s[i] # "-"}
    IN  IF kept = {} THEN <<>>
        ELSE SubSeq(s, CHOOSE i \in kept : \A j \in kept : i <= j,
                       CHOOSE i \in kept : \A j \in kept : j <= i)

\* s[:n]
Truncate(s, n) == SubSeq(s, 1, IF Len(s) < n THEN Len(s) ELSE n)

\* content.py:246-250: collapse, strip, and only then cut to 80 characters
Slugify(s) == Truncate(Strip(CollapseHyphens(MapChars(s))), MAX_SLUG_LEN)

(***************************************************************************)
(* Article generator (SimpleLocalLLM.generate_long_form_article).  The     *)
(* text is followed by its count of whitespace-delimited words, which is   *)
(* all that the minimum-length loop reads.                                 *)
(***************************************************************************)
\* content.py:8
MIN_WORDS == 1200

\* content.py:33-208: the words of the nine sections that do not come from
\* the keyword; the date "%B %Y" is two of them
TEMPLATE_WORDS == 889

\* content.py:226-231: the words of the padding sentence
PADDING_WORDS == 44

\* a keyword by what str.split() sees of it: its words, and how many of its
\* two ends are whitespace; no words and no whitespace is the empty string
KeywordShape(words, edges) == [words |-> words, edges |-> edges]

IsEmptyKeyword(kw) == kw.words = 0 /\ kw.edges = 0

\* content.py:35: "# {keyword}" adds the keyword's words
HeadingTokens(kw) == kw.words

\* content.py:80: "{keyword}" inside quotation marks: the marks join the first
\* and the last word, stand alone next to whitespace, and are one token "" for
\* the empty keyword
QuotedTokens(kw) ==
    IF kw.words = 0 THEN (IF kw.edges = 0 THEN 1 ELSE 2) ELSE kw.words + kw.edges

\* content.py:222-224: len(content.split()) of the joined sections
ComposedWords(kw) == TEMPLATE_WORDS + HeadingTokens(kw) + QuotedTokens(kw)

\* a padding step that appends an empty padding string
AppendEmptyPadding(n) == n

\* content.py:233-234: content += "\n\n" + padding; words = content.split()
AppendPadding(n) == n + PADDING_WORDS

\* a loop that stops as soon as one more padding would reach the minimum
PadAgainStoppingEarly(n) == n + PADDING_WORDS < MIN_WORDS

\* content.py:225 and 232: len(words) < MIN_WORDS
PadAgain(n) == n < MIN_WORDS

(***************************************************************************)
(* Stages.  ContentAgent.run is in src/; the Discovery, Validation and     *)
(* Distribution agents are modelled by their contracts.                    *)
(***************************************************************************)
\* a topic record: a dict holding the keys in `fields`
Topic(fields, id, keyword) == [fields |-> fields, id |-> id, keyword |-> keyword]

T1 == Topic({"id", "keyword"}, "t1", <<"B", "!", "a">>)
T2 == Topic({"id", "keyword"}, "t2", <<"a", "-", "-", "B">>)
TNoKeyword == Topic({"id"}, "t3", <<>>)
TNoId == Topic({"keyword"}, "", <<"a">>)

\* DiscoveryAgent.run() -> sequence of Topic
DiscoveryOutputs ==
    {<<>>, <<T1>>, <<T1, T2>>, <<T1, TNoKeyword>>, <<TNoId>>}

\* content.py:263-271
DraftArticle(topic) ==
    [topic_id |-> topic.id, title |-> topic.keyword, slug |-> Slugify(topic.keyword)]

\* a loop that puts each new draft in front of the earlier ones
RECURSIVE ContentRunNewestFirst(_)
ContentRunNewestFirst(topics) ==
    IF topics = <<>> THEN [raised |-> FALSE, message |-> "", drafts |-> <<>>]
    ELSE LET topic == Head(topics)
             rest == ContentRunNewestFirst(Tail(topics))
         IN  IF "keyword" \notin topic.fields
             THEN [raised |-> TRUE, message |-> "'keyword'", drafts |-> <<>>]
             ELSE IF "id" \notin topic.fields
             THEN [raised |-> TRUE, message |-> "'id'", drafts |-> <<>>]
             ELSE IF rest.raised THEN rest
             ELSE [raised |-> FALSE, message |-> "",
                   drafts |-> rest.drafts \o <<DraftArticle(topic)>>]

\* a loop that catches the KeyError and goes on with the next topic
RECURSIVE ContentRunSkippingMalformed(_)
ContentRunSkippingMalformed(topics) ==
    IF topics = <<>> THEN [raised |-> FALSE, message |-> "", drafts |-> <<>>]
    ELSE LET topic == Head(topics)
             rest == ContentRunSkippingMalformed(Tail(topics))
         IN  IF "keyword" \notin topic.fields \/ "id" \notin topic.fields
             THEN rest
             ELSE [raised |-> FALSE, message |-> "",
                   drafts |-> <<DraftArticle(topic)>> \o rest.drafts]

\* content.py:252-272: topic["keyword"] is read first (line 255), topic["id"]
\* last (line 265); a missing key raises KeyError and nothing is returned
RECURSIVE ContentRun(_)
ContentRun(topics) ==
    IF topics = <<>> THEN [raised |-> FALSE, message |-> "", drafts |-> <<>>]
    ELSE LET topic == Head(topics)
             rest == ContentRun(Tail(topics))
         IN  IF "keyword" \notin topic.fields
             THEN [raised |-> TRUE, message |-> "'keyword'", drafts |-> <<>>]
             ELSE IF "id" \notin topic.fields
             THEN [raised |-> TRUE, message |-> "'id'", drafts |-> <<>>]
             ELSE IF rest.raised THEN rest
             ELSE [raised |-> FALSE, message |-> "",
                   drafts |-> <<DraftArticle(topic)>> \o rest.drafts]

Prefixes(s) == {SubSeq(s, 1, n) : n \in 0..Len(s)}

\* ValidationAgent.run(drafts) -> the approved drafts
ValidationOutputs(ds) == Prefixes(ds)

\* DistributionAgent.run(approved) -> the published files
DistributionOutputs(approved) ==
    Prefixes([i \in 1..Len(approved) |-> approved[i].slug])

Stages == <<"discovery", "content", "validation", "distribution">>

\* a stage sequence that goes from Discovery straight to Validation
StageAfterSkippingContent(stage) ==
    CASE stage = "discovery"    -> "validation"
      [] stage = "content"      -> "validation"
      [] stage = "validation"   -> "distribution"
      [] stage = "distribution" -> "finally"

\* main.py:94-111: the statement that follows a stage that returned
StageAfter(stage) ==
    CASE stage = "discovery"    -> "content"
      [] stage = "content"      -> "validation"
      [] stage = "validation"   -> "distribution"
      [] stage = "distribution" -> "finally"

\* an except clause that starts the entry's counts again from 0
OnExceptionResettingCounts(entry, message) ==
    [entry EXCEPT !.status = "failed", !.errors = Append(@, message),
                  !.generated_topics = 0, !.generated_articles = 0]

\* main.py:115-118: except Exception
OnException(entry, message) ==
    [entry EXCEPT !.status = "failed", !.errors = Append(@, message)]

\* a finally block that stores the run's count instead of adding it
FinalizeStoringCount(perf, entry) ==
    IF perf.type # "object" THEN [raised |-> "TypeError", performance |-> perf]
    ELSE IF "runs" \notin perf.keys THEN [raised |-> "KeyError", performance |-> perf]
    ELSE [raised |-> "",
          performance |->
              JObject(perf.keys \cup {"last_run", "articles_published", "errors"},
                      Append(perf.runs, entry),
                      entry.published_articles,
                      entry.timestamp,
                      Get(perf, "errors", <<>>) \o entry.errors)]

\* a finally block that counts the generated articles instead of the published
FinalizeCountingGenerated(perf, entry) ==
    IF perf.type # "object" THEN [raised |-> "TypeError", performance |-> perf]
    ELSE IF "runs" \notin perf.keys THEN [raised |-> "KeyError", performance |-> perf]
    ELSE [raised |-> "",
          performance |->
              JObject(perf.keys \cup {"last_run", "articles_published", "errors"},
                      Append(perf.runs, entry),
                      Get(perf, "articles_published", 0) + entry.generated_articles,
                      entry.timestamp,
                      Get(perf, "errors", <<>>) \o entry.errors)]

\* a finally block that stores the run's errors instead of extending the list
FinalizeReplacingErrors(perf, entry) ==
    IF perf.type # "object" THEN [raised |-> "TypeError", performance |-> perf]
    ELSE IF "runs" \notin perf.keys THEN [raised |-> "KeyError", performance |-> perf]
    ELSE [raised |-> "",
          performance |->
              JObject(perf.keys \cup {"last_run", "articles_published", "errors"},
                      Append(perf.runs, entry),
                      Get(perf, "articles_published", 0) + entry.published_articles,
                      entry.timestamp,
                      entry.errors)]

\* main.py:119-127: the finally block up to the save.  performance["runs"]
\* raises TypeError on a JSON value that is no object and KeyError on an
\* object without "runs"; nothing has been changed by then
Finalize(perf, entry) ==
    IF perf.type # "object" THEN [raised |-> "TypeError", performance |-> perf]
    ELSE IF "runs" \notin perf.keys THEN [raised |-> "KeyError", performance |-> perf]
    ELSE [raised |-> "",
          performance |->
              JObject(perf.keys \cup {"last_run", "articles_published", "errors"},
                      Append(perf.runs, entry),
                      Get(perf, "articles_published", 0) + entry.published_articles,
                      entry.timestamp,
                      Get(perf, "errors", <<>>) \o entry.errors)]

InitPipeline ==
    /\ fs = [topics |-> Absent, performance |-> Absent, index |-> Absent]
    /\ pc = [p \in Procs |-> "idle"]
    /\ clock = 0
    /\ performance = [p \in Procs |-> EmptyLedger]
    /\ run_entry = [p \in Procs |-> NewRunEntry(NullTime)]
    /\ new_topics = [p \in Procs |-> <<>>]
    /\ drafts = [p \in Procs |-> <<>>]
    /\ approved_drafts = [p \in Procs |-> <<>>]
    /\ published_files = [p \in Procs |-> <<>>]
    /\ exit = [p \in Procs |-> "none"]
    /\ found = [p \in Procs |-> Absent]
    /\ loaded = [p \in Procs |-> EmptyLedger]
    /\ executed = [p \in Procs |-> <<>>]
    /\ appended = <<>>
    /\ lastWritten = EmptyLedger

\* the generator at rest
InitGenIdle ==
    /\ gen_keyword = KeywordShape(1, 0)
    /\ gen_words = 0
    /\ gen_pc = "idle"
    /\ gen_padded = 0

Init ==
    /\ InitPipeline
    /\ text = <<>>
    /\ slugs = <<>>
    /\ InitGenIdle

AllIdle == \A q \in Procs : pc[q] = "idle"

\* main.py:80-81: setup_logging and ensure_initial_files
Begin(p) ==
    /\ pc[p] = "idle"
    /\ clock < MaxRuns
    /\ fs' = EnsureInitialFiles(fs)
    /\ lastWritten' = IF fs.performance = Absent THEN EmptyLedger ELSE lastWritten
    /\ appended' = IF fs.performance = Absent THEN <<>> ELSE appended
    /\ pc' = [pc EXCEPT ![p] = "load"]
    /\ UNCHANGED <<performance, run_entry, new_topics, drafts, approved_drafts,
                   published_files, exit, clock, found, loaded, executed, text, slugs, genVars>>

\* invocations follow one another: a run starts when no other is under way
BeginSequential(p) == AllIdle /\ Begin(p)

\* main.py:83-91: load_performance, then the fresh run_entry
Load(p) ==
    /\ pc[p] = "load"
    /\ performance' = [performance EXCEPT ![p] = LoadPerformance(fs.performance)]
    /\ run_entry' = [run_entry EXCEPT ![p] = NewRunEntry(clock + 1)]
    /\ clock' = clock + 1
    /\ found' = [found EXCEPT ![p] = fs.performance]
    /\ loaded' = [loaded EXCEPT ![p] = LoadPerformance(fs.performance)]
    /\ pc' = [pc EXCEPT ![p] = "discovery"]
    /\ UNCHANGED <<fs, new_topics, drafts, approved_drafts, published_files, exit,
                   executed, appended, lastWritten, text, slugs, genVars>>

\* history: the stage ran on `input` and returned `output`
Returned(p, stage, input, output) ==
    executed' = [executed EXCEPT ![p] =
                    Append(@, [stage |-> stage, input |-> input, outcome |-> "returned",
                               output |-> output, message |-> ""])]

\* a stage raised an Exception: control goes to the except clause, then finally
Raise(p, stage, input, message) ==
    /\ run_entry' = [run_entry EXCEPT ![p] = OnException(@, message)]
    /\ pc' = [pc EXCEPT ![p] = "finally"]
    /\ executed' = [executed EXCEPT ![p] =
                       Append(@, [stage |-> stage, input |-> input, outcome |-> "raised",
                                  output |-> <<>>, message |-> message])]

\* main.py:94-97
Discovery(p) ==
    /\ pc[p] = "discovery"
    /\ \/ \E topics \in DiscoveryOutputs :
            /\ new_topics' = [new_topics EXCEPT ![p] = topics]
            /\ run_entry' = [run_entry EXCEPT ![p].generated_topics = Len(topics)]
            /\ pc' = [pc EXCEPT ![p] = StageAfter("discovery")]
            /\ Returned(p, "discovery", <<>>, topics)
       \/ /\ Raise(p, "discovery", <<>>, "discovery failed")
          /\ UNCHANGED new_topics
    /\ UNCHANGED <<fs, performance, drafts, approved_drafts, published_files, exit,
                   clock, found, loaded, appended, lastWritten, text, slugs, genVars>>

\* main.py:99-102
Content(p) ==
    /\ pc[p] = "content"
    /\ LET r == ContentRun(new_topics[p])
       IN  IF r.raised
           THEN /\ Raise(p, "content", new_topics[p], r.message)
                /\ UNCHANGED drafts
           ELSE /\ drafts' = [drafts EXCEPT ![p] = r.drafts]
                /\ run_entry' = [run_entry EXCEPT ![p].generated_articles = Len(r.drafts)]
                /\ pc' = [pc EXCEPT ![p] = StageAfter("content")]
                /\ Returned(p, "content", new_topics[p], r.drafts)
    /\ UNCHANGED <<fs, performance, new_topics, approved_drafts, published_files, exit,
                   clock, found, loaded, appended, lastWritten, text, slugs, genVars>>

\* main.py:104-106
Validation(p) ==
    /\ pc[p] = "validation"
    /\ \/ \E approved \in ValidationOutputs(drafts[p]) :
            /\ approved_drafts' = [approved_drafts EXCEPT ![p] = approved]
            /\ pc' = [pc EXCEPT ![p] = StageAfter("validation")]
            /\ Returned(p, "validation", drafts[p], approved)
            /\ UNCHANGED run_entry
       \/ /\ Raise(p, "validation", drafts[p], "validation failed")
          /\ UNCHANGED approved_drafts
    /\ UNCHANGED <<fs, performance, new_topics, drafts, published_files, exit,
                   clock, found, loaded, appended, lastWritten, text, slugs, genVars>>

\* main.py:108-114
Distribution(p) ==
    /\ pc[p] = "distribution"
    /\ \/ \E files \in DistributionOutputs(approved_drafts[p]) :
            /\ published_files' = [published_files EXCEPT ![p] = files]
            /\ run_entry' = [run_entry EXCEPT ![p].published_articles = Len(files),
                                              ![p].status = "success"]
            /\ pc' = [pc EXCEPT ![p] = StageAfter("distribution")]
            /\ Returned(p, "distribution", approved_drafts[p], files)
       \/ /\ Raise(p, "distribution", approved_drafts[p], "distribution failed")
          /\ UNCHANGED published_files
    /\ UNCHANGED <<fs, performance, new_topics, drafts, approved_drafts, exit,
                   clock, found, loaded, appended, lastWritten, text, slugs, genVars>>

\* the argument the stage at this position is called with
StageInput(p) ==
    CASE pc[p] = "discovery"    -> <<>>
      [] pc[p] = "content"      -> new_topics[p]
      [] pc[p] = "validation"   -> drafts[p]
      [] pc[p] = "distribution" -> approved_drafts[p]

\* main.py:115: `except Exception` does not catch a BaseException
\* (KeyboardInterrupt, SystemExit) raised while a stage runs; control goes
\* straight to the finally block and the exception stays in flight
Interrupt(p) ==
    /\ pc[p] \in {"discovery", "content", "validation", "distribution"}
    /\ executed' = [executed EXCEPT ![p] =
                       Append(@, [stage |-> pc[p], input |-> StageInput(p),
                                  outcome |-> "interrupted", output |-> <<>>,
                                  message |-> ""])]
    /\ exit' = [exit EXCEPT ![p] = "interrupted"]
    /\ pc' = [pc EXCEPT ![p] = "finally"]
    /\ UNCHANGED <<fs, performance, run_entry, new_topics, drafts, approved_drafts,
                   published_files, clock, found, loaded, appended, lastWritten,
                   text, slugs, genVars>>

\* main.py:119-128, and leaving run_pipeline
Finally(p) ==
    /\ pc[p] = "finally"
    /\ LET r == Finalize(performance[p], run_entry[p])
       IN  IF r.raised # ""
           THEN /\ exit' = [exit EXCEPT ![p] = r.raised]
                /\ UNCHANGED <<fs, performance, appended, lastWritten>>
           ELSE /\ performance' = [performance EXCEPT ![p] = r.performance]
                /\ fs' = SavePerformance(fs, r.performance)
                /\ appended' = Append(appended, run_entry[p])
                /\ lastWritten' = r.performance
                /\ exit' = [exit EXCEPT ![p] = IF exit[p] = "interrupted"
                                               THEN "BaseException" ELSE "returned"]
    /\ pc' = [pc EXCEPT ![p] = "left"]
    /\ UNCHANGED <<run_entry, new_topics, drafts, approved_drafts, published_files,
                   clock, found, loaded, executed, text, slugs, genVars>>

\* the process ends; the locals are gone
Exit(p) ==
    /\ pc[p] = "left"
    /\ pc' = [pc EXCEPT ![p] = "idle"]
    /\ performance' = [performance EXCEPT ![p] = EmptyLedger]
    /\ run_entry' = [run_entry EXCEPT ![p] = NewRunEntry(NullTime)]
    /\ new_topics' = [new_topics EXCEPT ![p] = <<>>]
    /\ drafts' = [drafts EXCEPT ![p] = <<>>]
    /\ approved_drafts' = [approved_drafts EXCEPT ![p] = <<>>]
    /\ published_files' = [published_files EXCEPT ![p] = <<>>]
    /\ exit' = [exit EXCEPT ![p] = "none"]
    /\ found' = [found EXCEPT ![p] = Absent]
    /\ loaded' = [loaded EXCEPT ![p] = EmptyLedger]
    /\ executed' = [executed EXCEPT ![p] = <<>>]
    /\ UNCHANGED <<fs, clock, appended, lastWritten, text, slugs, genVars>>

(***************************************************************************)
(* The environment: between invocations the files may be removed or        *)
(* rewritten by something other than run_pipeline.  Only changes that a    *)
(* later invocation can find are modelled.                                 *)
(***************************************************************************)
\* what performance.json may be found to hold: text that is no JSON, a JSON
\* array, a JSON object without "runs", a JSON object with "runs" only
CorruptContents ==
    {[kind |-> "garbage"],
     JsonFile([type |-> "array"]),
     JsonFile(JObject({}, <<>>, 0, NullTime, <<>>)),
     JsonFile(JObject({"runs"}, <<>>, 0, NullTime, <<>>))}

ExternalContents(f) ==
    CASE f = "performance" -> CorruptContents
      [] f = "topics" -> {[kind |-> "text", body |-> "[topics]"]}
      [] f = "index" -> {[kind |-> "text", body |-> "# site index"]}

FileNames == {"topics", "performance", "index"}

EnvWrite(f) ==
    /\ AllIdle
    /\ clock < MaxRuns
    /\ \E c \in ExternalContents(f) :
          /\ fs[f] # c
          /\ fs' = [fs EXCEPT ![f] = c]
    /\ UNCHANGED <<pc, performance, run_entry, new_topics, drafts, approved_drafts,
                   published_files, exit, clock, found, loaded, executed, appended,
                   lastWritten, text, slugs, genVars>>

EnvRemove(f) ==
    /\ AllIdle
    /\ clock < MaxRuns
    /\ fs[f] # Absent
    /\ fs' = [fs EXCEPT ![f] = Absent]
    /\ UNCHANGED <<pc, performance, run_entry, new_topics, drafts, approved_drafts,
                   published_files, exit, clock, found, loaded, executed, appended,
                   lastWritten, text, slugs, genVars>>

Next ==
    \/ \E p \in Procs : BeginSequential(p)
    \/ \E p \in Procs : Load(p)
    \/ \E p \in Procs : Discovery(p)
    \/ \E p \in Procs : Content(p)
    \/ \E p \in Procs : Validation(p)
    \/ \E p \in Procs : Distribution(p)
    \/ \E p \in Procs : Interrupt(p)
    \/ \E p \in Procs : Finally(p)
    \/ \E p \in Procs : Exit(p)
    \/ \E f \in FileNames : EnvWrite(f)
    \/ \E f \in FileNames : EnvRemove(f)

Spec == Init /\ [][Next]_vars

(***************************************************************************)
(* The slug derivation on its own: an input string is chosen, _slugify is  *)
(* applied to it, and then to its own result.                              *)
(***************************************************************************)
Pad(n) == [i \in 1..n |-> "a"]

Tails == UNION {[1..k -> Alphabet] : k \in 0..MaxTail}

\* short strings, and strings whose slug reaches the 80-character cut
SlugInputs ==
    {Pad(n) \o t : n \in {0} \cup ((MAX_SLUG_LEN - MaxTail)..MAX_SLUG_LEN), t \in Tails}

InitSlug ==
    /\ InitPipeline
    /\ InitGenIdle
    /\ text \in SlugInputs
    /\ slugs = <<>>

ApplySlugify ==
    /\ Len(slugs) < 2
    /\ slugs' = Append(slugs, Slugify(IF slugs = <<>> THEN text ELSE slugs[Len(slugs)]))
    /\ UNCHANGED <<text, fs, pc, performance, run_entry, new_topics, drafts,
                   approved_drafts, published_files, exit, clock, found, loaded,
                   executed, appended, lastWritten, genVars>>

NextSlug == ApplySlugify

SlugSpec == InitSlug /\ [][NextSlug]_vars

(***************************************************************************)
(* The article generator on its own: a keyword is chosen, the sections     *)
(* are composed, and the padding loop runs to its end.                     *)
(***************************************************************************)
KeywordShapes == {KeywordShape(k, e) : k \in 0..MaxKeywordWords, e \in 0..2}

InitGen ==
    /\ InitPipeline
    /\ text = <<>>
    /\ slugs = <<>>
    /\ gen_keyword \in KeywordShapes
    /\ gen_words = 0
    /\ gen_pc = "compose"
    /\ gen_padded = 0

\* content.py:30-224
Compose ==
    /\ gen_pc = "compose"
    /\ gen_words' = ComposedWords(gen_keyword)
    /\ gen_pc' = "pad"
    /\ UNCHANGED <<gen_keyword, gen_padded, fs, pc, performance, run_entry, new_topics,
                   drafts, approved_drafts, published_files, exit, clock, found, loaded,
                   executed, appended, lastWritten, text, slugs>>

\* content.py:232-234: one iteration of the while loop
PadOnce ==
    /\ gen_pc = "pad"
    /\ PadAgain(gen_words)
    /\ gen_words' = AppendPadding(gen_words)
    /\ gen_padded' = gen_padded + 1
    /\ UNCHANGED <<gen_keyword, gen_pc, fs, pc, performance, run_entry, new_topics,
                   drafts, approved_drafts, published_files, exit, clock, found, loaded,
                   executed, appended, lastWritten, text, slugs>>

\* content.py:236
Return ==
    /\ gen_pc = "pad"
    /\ ~PadAgain(gen_words)
    /\ gen_pc' = "done"
    /\ UNCHANGED <<gen_keyword, gen_words, gen_padded, fs, pc, performance, run_entry,
                   new_topics, drafts, approved_drafts, published_files, exit, clock,
                   found, loaded, executed, appended, lastWritten, text, slugs>>

NextGen == Compose \/ PadOnce \/ Return

\* the function runs in one thread with nothing to wait for: a step that can
\* be taken is taken
GenSpec == InitGen /\ [][NextGen]_vars /\ WF_vars(NextGen)

(***************************************************************************)
(* The content stage on its own: run_pipeline has bootstrapped and loaded  *)
(* the empty ledger, Discovery has returned some sequence of topics, and   *)
(* ContentAgent.run is about to be called on it.                           *)
(***************************************************************************)
TopicPool == {T1, T2, TNoKeyword, TNoId}

TopicSeqs == UNION {[1..n -> TopicPool] : n \in 0..MaxTopics}

InitContent ==
    /\ \E topics \in TopicSeqs :
          /\ new_topics = [p \in Procs |-> IF p = "p1" THEN topics ELSE <<>>]
          /\ run_entry = [p \in Procs |->
                            IF p = "p1"
                            THEN [NewRunEntry(1) EXCEPT !.generated_topics = Len(topics)]
                            ELSE NewRunEntry(NullTime)]
          /\ executed = [p \in Procs |->
                            IF p = "p1"
                            THEN <<[stage |-> "discovery", input |-> <<>>,
                                    outcome |-> "returned", output |-> topics,
                                    message |-> ""]>>
                            ELSE <<>>]
    /\ fs = [topics |-> TopicsDefault, performance |-> PerformanceDefault,
             index |-> IndexDefault]
    /\ pc = [p \in Procs |-> IF p = "p1" THEN "content" ELSE "idle"]
    /\ clock = 1
    /\ performance = [p \in Procs |-> EmptyLedger]
    /\ drafts = [p \in Procs |-> <<>>]
    /\ approved_drafts = [p \in Procs |-> <<>>]
    /\ published_files = [p \in Procs |-> <<>>]
    /\ exit = [p \in Procs |-> "none"]
    /\ found = [p \in Procs |-> IF p = "p1" THEN PerformanceDefault ELSE Absent]
    /\ loaded = [p \in Procs |-> EmptyLedger]
    /\ appended = <<>>
    /\ lastWritten = EmptyLedger
    /\ text = <<>>
    /\ slugs = <<>>
    /\ InitGenIdle

NextContent ==
    \/ \E p \in Procs : Content(p)
    \/ \E p \in Procs : Finally(p)

ContentSpec == InitContent /\ [][NextContent]_vars

(***************************************************************************)
(* Two overlapping invocations: two processes, each making one pass of     *)
(* run_pipeline, with nothing that keeps one from starting while the       *)
(* other is under way.                                                     *)
(***************************************************************************)
NextOverlapping ==
    \/ \E p \in Procs : Begin(p)
    \/ \E p \in Procs : Load(p)
    \/ \E p \in Procs : Discovery(p)
    \/ \E p \in Procs : Content(p)
    \/ \E p \in Procs : Validation(p)
    \/ \E p \in Procs : Distribution(p)
    \/ \E p \in Procs : Interrupt(p)
    \/ \E p \in Procs : Finally(p)

OverlappingSpec == Init /\ [][NextOverlapping]_vars

(***************************************************************************)
(* What a file holds.                                                      *)
(***************************************************************************)
HoldsObject(file) == file.kind = "json" /\ file.value.type = "object"

HoldsRuns(file) == HoldsObject(file) /\ "runs" \in file.value.keys

HoldsCounter(file) == HoldsObject(file) /\ "articles_published" \in file.value.keys

\* a ledger object with runs, articles_published, last_run and errors
HoldsLedger(file) == HoldsObject(file) /\ file.value.keys = LedgerKeys

RunsOf(file) == file.value.runs

CounterOf(file) == file.value.articles_published

Last(s) == s[Len(s)]

RECURSIVE SumPublished(_)
SumPublished(runs) ==
    IF runs = <<>> THEN 0
    ELSE Head(runs).published_articles + SumPublished(Tail(runs))

\* the ledger an invocation starts from: the one on disk, or the empty one
\* when the file does not hold one
RunsBefore(p) == IF HoldsRuns(found[p]) THEN RunsOf(found[p]) ELSE <<>>

CounterBefore(p) == IF HoldsCounter(found[p]) THEN CounterOf(found[p]) ELSE 0

\* the stage of this invocation that raised an Exception, if any
StageRaised(p) ==
    executed[p] # <<>> /\ Last(executed[p]).outcome = "raised"

FinallyStep(p) == pc[p] = "finally" /\ pc'[p] = "left"

(***************************************************************************)
(* Orchestrator claims.                                                    *)
(***************************************************************************)
\* C1: after every invocation, whatever the stages did and whatever was on
\* disk, the persisted ledger has one run more than before and its
\* articles_published has grown by the new RunEntry's published_articles.
C1_FinalizationAddsOneRun ==
    \A p \in Procs :
        pc[p] = "left" =>
            /\ HoldsRuns(fs.performance)
            /\ HoldsCounter(fs.performance)
            /\ Len(RunsOf(fs.performance)) = Len(RunsBefore(p)) + 1
            /\ CounterOf(fs.performance) =
                   CounterBefore(p) + Last(RunsOf(fs.performance)).published_articles

\* C2 as claimed: whenever the file holds a counter, articles_published is
\* the sum of published_articles over every RunEntry ever appended.
C2_CounterIsSumOfAllAppended ==
    HoldsCounter(fs.performance) =>
        CounterOf(fs.performance) = SumPublished(appended)

\* C2 as amended: whenever the file holds a ledger, articles_published is the
\* sum of published_articles over the RunEntries in its runs sequence.
C2_CounterIsSumOfPersistedRuns ==
    (HoldsRuns(fs.performance) /\ HoldsCounter(fs.performance)) =>
        CounterOf(fs.performance) = SumPublished(RunsOf(fs.performance))

\* two runs on disk, both of which published something
C2_Witness ==
    /\ HoldsRuns(fs.performance)
    /\ HoldsCounter(fs.performance)
    /\ Len(RunsOf(fs.performance)) = 2
    /\ RunsOf(fs.performance)[1].published_articles >= 1
    /\ RunsOf(fs.performance)[2].published_articles >= 1

\* C3: when a stage raised an Exception, the invocation's RunEntry has status
\* "failed", its errors hold the exception's message, and the ledger on disk
\* ends with that RunEntry.
C3_StageFailureRecorded ==
    \A p \in Procs :
        (pc[p] = "left" /\ StageRaised(p)) =>
            /\ run_entry[p].status = "failed"
            /\ run_entry[p].errors # <<>>
            /\ \E i \in 1..Len(run_entry[p].errors) :
                   run_entry[p].errors[i] = Last(executed[p]).message
            /\ HoldsRuns(fs.performance)
            /\ RunsOf(fs.performance) # <<>>
            /\ Last(RunsOf(fs.performance)) = run_entry[p]

\* C4: when performance.json does not hold a ledger object, load_performance
\* yields the empty ledger, run_pipeline comes to its end without an error of
\* its own, and a ledger ending with the new RunEntry is on disk.
C4_CorruptLedgerRecovered ==
    \A p \in Procs :
        (pc[p] = "left" /\ ~HoldsLedger(found[p])) =>
            /\ loaded[p] = EmptyLedger
            /\ exit[p] \in {"returned", "BaseException"}
            /\ HoldsLedger(fs.performance)
            /\ RunsOf(fs.performance) # <<>>
            /\ Last(RunsOf(fs.performance)) = run_entry[p]

\* C5 as claimed: the counter an invocation leaves on disk is never smaller
\* than the counter the program last left there.
C5_CounterNeverDecreases ==
    [][\A p \in Procs :
          (FinallyStep(p) /\ HoldsCounter(fs'.performance)) =>
              CounterOf(fs'.performance) >= lastWritten.articles_published]_vars

\* C5 as amended: no step takes performance.json from a ledger with a counter
\* to a ledger with a smaller counter.
C5_CounterNeverDecreasesOnLedger ==
    [][(HoldsCounter(fs.performance) /\ HoldsCounter(fs'.performance)) =>
          CounterOf(fs'.performance) >= CounterOf(fs.performance)]_vars

\* an invocation found a counter of at least 1 and left a larger one
C5_Witness ==
    \E p \in Procs :
        /\ pc[p] = "left"
        /\ HoldsCounter(found[p])
        /\ CounterOf(found[p]) >= 1
        /\ HoldsCounter(fs.performance)
        /\ CounterOf(fs.performance) > CounterOf(found[p])

\* what ensure_initial_files writes into a file that is absent
InitialContent(f) ==
    CASE f = "topics" -> TopicsDefault
      [] f = "performance" -> PerformanceDefault
      [] f = "index" -> IndexDefault

\* C6: ensure_initial_files creates each of the three files only when it is
\* absent, leaves every existing file as it is, and a second call changes
\* nothing.
C6_BootstrapKeepsExistingFiles ==
    [][\A p \in Procs :
          (pc[p] = "idle" /\ pc'[p] = "load") =>
              /\ \A f \in FileNames :
                    fs'[f] = IF fs[f] = Absent THEN InitialContent(f) ELSE fs[f]
              /\ EnsureInitialFiles(fs') = fs']_vars

\* a bootstrap that found a ledger with a run and a rewritten topics file
\* and kept both
C6_Witness ==
    \E p \in Procs :
        /\ pc[p] = "load"
        /\ HoldsRuns(fs.performance)
        /\ Len(RunsOf(fs.performance)) = 1
        /\ fs.topics \in ExternalContents("topics")
        /\ fs.index = IndexDefault

\* C7: the stages of an invocation run in the order Discovery, Content,
\* Validation, Distribution, each at most once, each on the output of the
\* stage before it, and none after a stage that did not return.
C7_StagesRunInOrder ==
    \A p \in Procs :
        /\ Len(executed[p]) <= Len(Stages)
        /\ \A i \in 1..Len(executed[p]) :
              /\ executed[p][i].stage = Stages[i]
              /\ i = 1 => executed[p][i].input = <<>>
              /\ i > 1 => /\ executed[p][i - 1].outcome = "returned"
                          /\ executed[p][i].input = executed[p][i - 1].output

\* Content raised on the topics Discovery returned, and the invocation ended
\* with no further stage
C7_Witness ==
    \E p \in Procs :
        /\ pc[p] = "left"
        /\ Len(executed[p]) = 2
        /\ executed[p][2].outcome = "raised"
        /\ executed[p][2].input # <<>>

\* C8: after every invocation the runs on disk are the runs that were there
\* before, unchanged, followed by exactly one new RunEntry.
C8_RunsAppendOnly ==
    \A p \in Procs :
        pc[p] = "left" =>
            /\ HoldsRuns(fs.performance)
            /\ RunsOf(fs.performance) = Append(RunsBefore(p), run_entry[p])

(***************************************************************************)
(* Slug claims.                                                            *)
(***************************************************************************)
\* C9: _slugify applied to its own result gives that result again.
C9_SlugifyIdempotent ==
    Len(slugs) = 2 => slugs[2] = slugs[1]

\* C10: the result of _slugify has no leading hyphen, no trailing hyphen, no
\* two hyphens in a row, and at most 80 characters.
C10_SlugWellFormed ==
    Len(slugs) >= 1 =>
        /\ slugs[1] # <<>> => (Head(slugs[1]) # "-" /\ Last(slugs[1]) # "-")
        /\ ~HasDoubleHyphen(slugs[1])
        /\ Len(slugs[1]) <= MAX_SLUG_LEN

(***************************************************************************)
(* Generator claims.                                                       *)
(***************************************************************************)
\* C12: for every non-empty keyword the returned text has at least 1200
\* words, whatever the composed sections came to.
C12_ArticleHasMinWords ==
    (gen_pc = "done" /\ ~IsEmptyKeyword(gen_keyword)) => gen_words >= MIN_WORDS

\* a three-word keyword ("vim vs vscode"): 895 composed words, 7 paddings
C12_Witness ==
    /\ gen_pc = "done"
    /\ gen_keyword = KeywordShape(3, 0)
    /\ gen_padded = 7
    /\ gen_words = 1203

\* C18: every iteration of the padding loop raises the word count, and the
\* loop ends, after no more iterations than 1200 words of padding take.
C18_PaddingLoopTerminates ==
    /\ [][(gen_pc = "pad" /\ gen_padded' # gen_padded) => gen_words' > gen_words]_vars
    /\ [](gen_padded * PADDING_WORDS < MIN_WORDS + PADDING_WORDS)
    /\ <>(gen_pc = "done")

\* the loop has run for the shortest composed text and has ended
C18_Witness ==
    /\ gen_pc = "done"
    /\ IsEmptyKeyword(gen_keyword)
    /\ gen_padded = 8

(***************************************************************************)
(* Content stage claims.                                                   *)
(***************************************************************************)
WellFormed(topics) ==
    \A i \in 1..Len(topics) : {"id", "keyword"} \subseteq topics[i].fields

UniqueIds(topics) ==
    \A i, j \in 1..Len(topics) : i # j => topics[i].id # topics[j].id

\* ContentAgent.run has been called in this invocation and has come to its
\* own end, by returning or by raising
ContentCalled(p) == Len(executed[p]) >= 2 /\ executed[p][2].outcome # "interrupted"

ContentCall(p) == executed[p][2]

\* C11: on N well-formed topics with unique ids ContentAgent.run returns N
\* drafts, the i-th with the i-th topic's id and the slug of its keyword.
C11_ContentKeepsOrderAndCount ==
    \A p \in Procs :
        (/\ ContentCalled(p)
         /\ WellFormed(ContentCall(p).input)
         /\ UniqueIds(ContentCall(p).input)) =>
            LET topics == ContentCall(p).input
                result == ContentCall(p).output
            IN  /\ ContentCall(p).outcome = "returned"
                /\ drafts[p] = result
                /\ Len(result) = Len(topics)
                /\ \A i \in 1..Len(topics) :
                      /\ result[i].topic_id = topics[i].id
                      /\ result[i].slug = Slugify(topics[i].keyword)

\* two topics in, their two drafts out, in the same order
C11_Witness ==
    \E p \in Procs :
        /\ ContentCalled(p)
        /\ ContentCall(p).input = <<T2, T1>>
        /\ Len(drafts[p]) = 2
        /\ drafts[p][1].topic_id = "t2"
        /\ drafts[p][2].slug = <<"b", "-", "a">>

\* C13: on a sequence with a topic that lacks id or keyword ContentAgent.run
\* raises and hands back no draft, and run_pipeline's except clause gets the
\* exception: the run is failed with the KeyError's message and 0 articles.
C13_MalformedTopicFailsStage ==
    \A p \in Procs :
        (ContentCalled(p) /\ ~WellFormed(ContentCall(p).input)) =>
            /\ ContentCall(p).outcome = "raised"
            /\ ContentCall(p).output = <<>>
            /\ ContentCall(p).message \in {"'keyword'", "'id'"}
            /\ drafts[p] = <<>>
            /\ pc[p] \in {"finally", "left"}
            /\ run_entry[p].status = "failed"
            /\ run_entry[p].errors = <<ContentCall(p).message>>
            /\ run_entry[p].generated_articles = 0

\* a well-formed topic, then one without keyword: no draft for either
C13_Witness ==
    \E p \in Procs :
        /\ ContentCalled(p)
        /\ ContentCall(p).input = <<T1, TNoKeyword>>
        /\ ContentCall(p).message = "'keyword'"
        /\ pc[p] = "left"
        /\ RunsOf(fs.performance) = <<run_entry[p]>>

(***************************************************************************)
(* Further orchestrator claims.                                            *)
(***************************************************************************)
\* C14: when a stage raises an Exception, run_pipeline returns normally; no
\* exception leaves it.
C14_StageFailureReturnsNormally ==
    \A p \in Procs :
        (pc[p] = "left" /\ StageRaised(p)) => exit[p] = "returned"

\* both invocations have ended, and both had loaded the ledger before either
\* saved it
BothSavedOverOneLoad(p, q) ==
    /\ p # q
    /\ pc[p] = "left"
    /\ pc[q] = "left"
    /\ found[p] = found[q]

\* C15: when two invocations overlap so that both load before either saves,
\* both append and save, and the ledger on disk has the loaded runs and one
\* of the two RunEntries only: the runs grow by 1, the counter by that one
\* entry's published_articles, the errors by that entry's errors.
C15_LastWriterWins ==
    \A p, q \in Procs :
        BothSavedOverOneLoad(p, q) =>
            /\ Len(appended) = 2
            /\ HoldsLedger(fs.performance)
            /\ Len(RunsOf(fs.performance)) = Len(RunsOf(found[p])) + 1
            /\ \E w \in {p, q} :
                  /\ Last(RunsOf(fs.performance)) = run_entry[w]
                  /\ CounterOf(fs.performance) =
                         CounterOf(found[p]) + run_entry[w].published_articles
                  /\ fs.performance.value.errors =
                         found[p].value.errors \o run_entry[w].errors

\* both invocations have ended; the one that published an article is not in
\* the ledger, which holds the failed one alone
C15_Witness ==
    \E p, q \in Procs :
        /\ BothSavedOverOneLoad(p, q)
        /\ run_entry[p].published_articles >= 1
        /\ run_entry[q].status = "failed"
        /\ RunsOf(fs.performance) = <<run_entry[q]>>
        /\ CounterOf(fs.performance) = 0

RECURSIVE ConcatErrors(_)
ConcatErrors(runs) ==
    IF runs = <<>> THEN <<>> ELSE Head(runs).errors \o ConcatErrors(Tail(runs))

\* C16: whenever the file holds a ledger, its errors are the errors of the
\* RunEntries in runs, concatenated in run order.
C16_ErrorsAreConcatenation ==
    (HoldsRuns(fs.performance) /\ "errors" \in fs.performance.value.keys) =>
        fs.performance.value.errors = ConcatErrors(RunsOf(fs.performance))

\* two failed runs on disk, with their two messages in run order
C16_Witness ==
    /\ HoldsRuns(fs.performance)
    /\ Len(RunsOf(fs.performance)) = 2
    /\ fs.performance.value.errors = <<"discovery failed", "'keyword'">>

\* C17: every RunEntry in the persisted runs has status "success" or
\* "failed", never "started".
C17_PersistedStatusIsTerminal ==
    HoldsRuns(fs.performance) =>
        \A i \in 1..Len(RunsOf(fs.performance)) :
            RunsOf(fs.performance)[i].status \in {"success", "failed"}

\* C19: the RunEntry of a run in which a stage raised keeps the counts of the
\* stages that returned before and 0 for the others.
C19_FailedEntryKeepsCounts ==
    \A p \in Procs :
        StageRaised(p) =>
            LET stage == Last(executed[p]).stage
                entry == run_entry[p]
            IN  /\ entry.status = "failed"
                /\ entry.published_articles = 0
                /\ entry.generated_topics =
                       IF stage = "discovery" THEN 0 ELSE Len(executed[p][1].output)
                /\ entry.generated_articles =
                       IF stage \in {"discovery", "content"} THEN 0
                       ELSE Len(executed[p][2].output)

\* Distribution raised after two topics had become two drafts
C19_Witness ==
    \E p \in Procs :
        /\ StageRaised(p)
        /\ Last(executed[p]).stage = "distribution"
        /\ run_entry[p].generated_topics = 2
        /\ run_entry[p].generated_articles = 2
        /\ pc[p] = "left"

\* C20: in every RunEntry appended, status is "failed" exactly when errors is
\* not empty, and then errors has one element and published_articles is 0;
\* and after every invocation last_run is the timestamp of the last element
\* of runs.
C20_RunEntryConsistent ==
    /\ \A i \in 1..Len(appended) :
          /\ appended[i].status = "failed" <=> appended[i].errors # <<>>
          /\ appended[i].status = "failed" =>
                 (Len(appended[i].errors) = 1 /\ appended[i].published_articles = 0)
          /\ appended[i].status = "success" => appended[i].errors = <<>>
    /\ \A p \in Procs :
          pc[p] = "left" =>
              /\ HoldsRuns(fs.performance)
              /\ RunsOf(fs.performance) # <<>>
              /\ "last_run" \in fs.performance.value.keys
              /\ fs.performance.value.last_run = Last(RunsOf(fs.performance)).timestamp
====
